---- MODULE Spec2Model ----
(***************************************************************************)
(* Rental lifecycle of the Rentoo marketplace: the rental store, the       *)
(* product availability flag, and every HTTP handler that creates a        *)
(* rental or changes its status or dates.                                  *)
(*                                                                         *)
(* Dates are whole days.  A handler is one action, except POST /rentals,   *)
(* which is also modelled split at its awaits (specification SpecConc) so  *)
(* that concurrent requests interleave as they do on the Node event loop.  *)
(*                                                                         *)
(* No handler reads the Notification collection, so the specifications     *)
(* about rentals and products leave it untouched; SpecNotify runs the      *)
(* handlers together with the notifications they dispatch.                 *)
(***************************************************************************)
EXTENDS Integers, Sequences, FiniteSets, TLC

\* ---------------------------------------------------------------- bounds
MaxDay == 3
MaxRentals == 2
MaxReqs == 2
\* longest rental of the price specification, in days
MaxSpan == 32
\* hourly runs of the reminder job within one day
MaxRuns == 2

\* ------------------------------------------------------------- constants
\* `const now = new Date()`: the request time, one fixed day of the calendar.
Now == 1
\* pricing.perDay of the listed product.
PerDay == 100

Days == 0..MaxDay
NoDate == 0 - 1

Users == {"v1", "v2", "c1"}
\* role stored on the User document and read by the auth middleware
Role(u) == IF u \in {"v1", "v2"} THEN "vendor" ELSE "customer"

Products == {"p1"}
\* ids a request may name: the stored products and one that does not exist
ProductIds == Products \cup {"p0"}

\* rentalSchema.status enum
Statuses == {"pending", "approved", "active", "rejected", "completed", "cancelled"}
\* rentalSchema.duration enum
DurationEnum == {"daily", "weekly", "monthly"}
\* status values a request body may carry: the enum and one illegal string
StatusInputs == Statuses \cup {"bogus"}
NoStatus == "absent"
NoPrice == 0 - 1

VARIABLES
  rentals,    \* the Rental collection, in insertion order (index = _id)
  products,   \* the Product collection: id -> [owner, perDay, isAvailable]
  reqs,       \* requests: suspended at an await (SpecConc, SpecStatus) or
              \* answered, with the reply (SpecCreate, SpecPrice, SpecNotify)
  notifications   \* the Notification collection (SpecNotify)

vars == <<rentals, products, reqs, notifications>>

RentalIds == 1..Len(rentals)

\* ------------------------------------------------------ Availability Engine
\* the filter with pending requests counted as bookings
ConflictsWithPending(rs, p, start, end) ==
  {i \in 1..Len(rs) :
      /\ rs[i].product = p
      /\ rs[i].status \in {"pending", "approved", "active"}
      /\ rs[i].startDate <= end
      /\ rs[i].endDate >= start}

\* the Mongo filter of checkAvailability: committed rentals of the product
\* with startDate <= end and endDate >= start
Conflicts(rs, p, start, end) ==
  {i \in 1..Len(rs) :
      /\ rs[i].product = p
      /\ rs[i].status \in {"approved", "active"}
      /\ rs[i].startDate <= end
      /\ rs[i].endDate >= start}

\* the answer when a range that only touches a booking's first or last day
\* is let through
checkAvailabilityOpenEnds(rs, p, start, end) ==
  \A i \in Conflicts(rs, p, start, end) :
     rs[i].startDate = end \/ rs[i].endDate = start

\* conflictingRentals.length === 0
checkAvailability(rs, p, start, end) == Conflicts(rs, p, start, end) = {}

\* rentalSchema.statics.calculatePrice
calculatePrice(product, start, end) ==
  [duration |-> ToString(end - start), totalPrice |-> (end - start) * product.perDay]

\* schema validation that rental.save() runs on the enum paths
ValidDoc(r) == r.status \in Statuses /\ r.duration \in DurationEnum

\* ------------------------------------------------------------ createRental
\* the tiers of the price validation in POST /rentals
WeekDays == 7
MonthDays == 30

\* lines 23-42: date parsing and ordering, start against the request time
DateCheck(s, e) ==
  IF s = NoDate \/ e = NoDate THEN "InvalidDateRange"
  ELSE IF s >= e THEN "InvalidDateRange"
  ELSE IF s < Now THEN "DateInPast"
  ELSE "ok"

\* the product checks without the comparison of owner and requester
ProductCheckAnyRequester(u, pid, prods) ==
  IF pid \notin DOMAIN prods THEN "NotFound"
  ELSE IF ~prods[pid].isAvailable THEN "ProductUnavailable"
  ELSE "ok"

\* lines 44-58: product lookup, self-rental, global availability flag
ProductCheck(u, pid, prods) ==
  IF pid \notin DOMAIN prods THEN "NotFound"
  ELSE IF prods[pid].owner = u THEN "SelfRentalForbidden"
  ELSE IF ~prods[pid].isAvailable THEN "ProductUnavailable"
  ELSE "ok"

\* lines 60-85: the date-conflict check against the rental store
AvailCheck(rs, pid, s, e) ==
  IF checkAvailability(rs, pid, s, e) THEN "ok" ELSE "DateConflict"

\* lines 87-105: day count, duration bucket and expected price.  The product
\* schema stores pricing.perDay only, so the weekly and monthly rates are
\* undefined and the expected price of those tiers is NaN.
Quote(product, s, e) ==
  LET days == e - s IN
  IF days <= WeekDays
    THEN [duration |-> "daily", nan |-> FALSE, expected |-> days * product.perDay]
  ELSE IF days <= MonthDays
    THEN [duration |-> "weekly", nan |-> TRUE, expected |-> 0]
  ELSE [duration |-> "monthly", nan |-> TRUE, expected |-> 0]

Abs(x) == IF x < 0 THEN 0 - x ELSE x

\* lines 107-114: Math.abs(expectedPrice - totalPrice) > 1 (false for NaN)
PriceCheck(product, s, e, price) ==
  LET q == Quote(product, s, e) IN
  IF ~q.nan /\ Abs(q.expected - price) > 1 THEN "PriceMismatch" ELSE "ok"

\* the document with renter and owner exchanged
NewRentalSwapped(u, pid, product, s, e, price) ==
  [product |-> pid, owner |-> u, renter |-> product.owner,
   startDate |-> s, endDate |-> e,
   duration |-> Quote(product, s, e).duration,
   totalPrice |-> price, status |-> "pending"]

\* lines 117-126: the document handed to rental.save()
NewRental(u, pid, product, s, e, price) ==
  [product |-> pid, owner |-> product.owner, renter |-> u,
   startDate |-> s, endDate |-> e,
   duration |-> Quote(product, s, e).duration,
   totalPrice |-> price, status |-> "pending"]

\* the product lookup moved ahead of the date validation
CreateOutcomeProductFirst(u, pid, s, e, price, prods, rs) ==
  IF ProductCheck(u, pid, prods) # "ok" THEN ProductCheck(u, pid, prods)
  ELSE IF DateCheck(s, e) # "ok" THEN DateCheck(s, e)
  ELSE IF AvailCheck(rs, pid, s, e) # "ok" THEN "DateConflict"
  ELSE PriceCheck(prods[pid], s, e, price)

\* the first failing check of POST /rentals, "ok" when all pass
CreateOutcome(u, pid, s, e, price, prods, rs) ==
  IF DateCheck(s, e) # "ok" THEN DateCheck(s, e)
  ELSE IF ProductCheck(u, pid, prods) # "ok" THEN ProductCheck(u, pid, prods)
  ELSE IF AvailCheck(rs, pid, s, e) # "ok" THEN "DateConflict"
  ELSE PriceCheck(prods[pid], s, e, price)

\* POST /api/rentals handled without interleaving: the effect on the stores
CreateRental(u, pid, s, e, price) ==
  /\ IF CreateOutcome(u, pid, s, e, price, products, rentals) = "ok"
       THEN /\ Len(rentals) < MaxRentals
            /\ rentals' = Append(rentals, NewRental(u, pid, products[pid], s, e, price))
       ELSE UNCHANGED rentals
  /\ UNCHANGED <<products, reqs>>

\* -------------------------------------------------------- status handlers
\* the lookup without its owner filter
FoundByAnyone(u, r) == r \in RentalIds

\* Rental.findOne({_id, owner: req.user._id})
FoundByOwner(u, r) == r \in RentalIds /\ rentals[r].owner = u

\* the write as an updateMany over the product's rentals
SetStatusOfProduct(r, st) ==
  [i \in DOMAIN rentals |->
     IF rentals[i].product = rentals[r].product
       THEN [rentals[i] EXCEPT !.status = st]
       ELSE rentals[i]]

\* rental.status = status; await rental.save()
SetStatus(r, st) == [rentals EXCEPT ![r].status = st]

\* the update with the flag set to false
HoldProduct(pid) ==
  IF pid \in DOMAIN products
    THEN [products EXCEPT ![pid].isAvailable = FALSE]
    ELSE products

\* Product.findByIdAndUpdate(id, {"availability.isAvailable": true})
ReleaseProduct(pid) ==
  IF pid \in DOMAIN products
    THEN [products EXCEPT ![pid].isAvailable = TRUE]
    ELSE products

\* the table of PATCH /api/rentals/:id/status and of the first vendor router
validTransitions(st) ==
  CASE st = "pending" -> {"approved", "rejected", "cancelled"}
    [] st = "approved" -> {"active", "cancelled"}
    [] st = "active" -> {"completed", "cancelled"}
    [] OTHER -> {}

\* the table of the second vendor router ("undo" edges)
validTransitionsPermissive(st) ==
  CASE st = "pending" -> {"approved", "rejected", "cancelled"}
    [] st = "approved" -> {"pending", "active", "cancelled"}
    [] st = "active" -> {"approved", "completed", "cancelled"}
    [] st = "completed" -> {"active"}
    [] st = "rejected" -> {"pending"}
    [] st = "cancelled" -> {"pending", "approved", "active"}
    [] OTHER -> {}

\* the option table of the client's EditRentalModal; each row lists the
\* current status too, as the select's unchanged option
validTransitionsClient(st) ==
  CASE st = "pending" -> {"pending", "approved", "rejected", "cancelled"}
    [] st = "approved" -> {"approved", "pending", "active", "cancelled"}
    [] st = "active" -> {"active", "approved", "completed", "cancelled"}
    [] st = "completed" -> {"completed", "active"}
    [] st = "rejected" -> {"rejected", "pending"}
    [] st = "cancelled" -> {"cancelled", "pending", "approved", "active"}
    [] OTHER -> {}

\* router.use(authorize(role)) of the vendor and customer routers
authorize(role, u) == Role(u) = role

\* PATCH /api/rentals/:id/status: the checks before the write
RentalsPatchStatusOutcome(u, r, t) ==
  IF ~FoundByOwner(u, r) THEN "NotFound"
  ELSE IF t \notin Statuses THEN "InvalidStatus"
  ELSE IF t \notin validTransitions(rentals[r].status) THEN "InvalidTransition"
  ELSE "ok"

\* PATCH /api/rentals/:id/status
RentalsPatchStatus(u, r, t) ==
  /\ reqs' = reqs
  /\ IF RentalsPatchStatusOutcome(u, r, t) = "ok"
       THEN /\ products' = IF t = "completed"
                             THEN ReleaseProduct(rentals[r].product)
                             ELSE products
            /\ rentals' = SetStatus(r, t)
       ELSE UNCHANGED <<rentals, products>>

\* PATCH /api/rentals/:id/cancel: the checks before the write
RentalsPatchCancelOutcome(u, r) ==
  IF r \notin RentalIds THEN "NotFound"
  ELSE IF rentals[r].renter # u THEN "Forbidden"
  ELSE IF rentals[r].status # "pending" THEN "NotCancellable"
  ELSE "ok"

\* PATCH /api/rentals/:id/cancel
RentalsPatchCancel(u, r) ==
  /\ UNCHANGED <<products, reqs>>
  /\ IF RentalsPatchCancelOutcome(u, r) = "ok"
       THEN rentals' = SetStatus(r, "cancelled")
       ELSE UNCHANGED rentals

\* PATCH /api/vendor/rentals/:id/status, first vendor router: the checks
VendorPatchStatusOutcome(u, r, t) ==
  IF ~authorize("vendor", u) THEN "Forbidden"
  ELSE IF ~FoundByOwner(u, r) THEN "NotFound"
  ELSE IF t \notin Statuses THEN "InvalidStatus"
  ELSE IF t \notin validTransitions(rentals[r].status) THEN "InvalidTransition"
  ELSE "ok"

\* PATCH /api/vendor/rentals/:id/status, first vendor router
VendorPatchStatus(u, r, t) ==
  /\ reqs' = reqs
  /\ IF VendorPatchStatusOutcome(u, r, t) = "ok"
       THEN /\ rentals' = SetStatus(r, IF t = "approved" THEN "active" ELSE t)
            /\ products' = IF t = "completed"
                             THEN ReleaseProduct(rentals[r].product)
                             ELSE products
       ELSE UNCHANGED <<rentals, products>>

\* PATCH /api/vendor/rentals/:id/status, second vendor router: the checks
VendorPatchStatusPermissiveOutcome(u, r, t) ==
  IF ~authorize("vendor", u) THEN "Forbidden"
  ELSE IF ~FoundByOwner(u, r) THEN "NotFound"
  ELSE IF t \notin Statuses THEN "InvalidStatus"
  ELSE IF t \notin validTransitionsPermissive(rentals[r].status) THEN "InvalidTransition"
  ELSE "ok"

\* PATCH /api/vendor/rentals/:id/status, second vendor router
VendorPatchStatusPermissive(u, r, t) ==
  /\ UNCHANGED <<products, reqs>>
  /\ IF VendorPatchStatusPermissiveOutcome(u, r, t) = "ok"
       THEN rentals' = SetStatus(r, t)
       ELSE UNCHANGED rentals

\* Rental.findOne({_id, owner: req.user._id, status: "pending"}) behind the
\* vendor router's role check
PendingOwnerOutcome(u, r) ==
  IF ~authorize("vendor", u) THEN "Forbidden"
  ELSE IF ~(FoundByOwner(u, r) /\ rentals[r].status = "pending") THEN "NotFound"
  ELSE "ok"

\* POST /api/vendor/rentals/:id/approve
VendorApprove(u, r) ==
  /\ UNCHANGED <<products, reqs>>
  /\ IF PendingOwnerOutcome(u, r) = "ok"
       THEN rentals' = SetStatus(r, "approved")
       ELSE UNCHANGED rentals

\* POST /api/vendor/rentals/:id/reject
VendorReject(u, r) ==
  /\ UNCHANGED <<products, reqs>>
  /\ IF PendingOwnerOutcome(u, r) = "ok"
       THEN rentals' = SetStatus(r, "rejected")
       ELSE UNCHANGED rentals

\* POST /api/customer/rentals/:id/cancel: role check and scoped lookup
CustomerCancelOutcome(u, r) ==
  IF ~authorize("customer", u) THEN "Forbidden"
  ELSE IF ~(/\ r \in RentalIds
            /\ rentals[r].renter = u
            /\ rentals[r].status \in {"pending", "approved"}) THEN "NotFound"
  ELSE "ok"

\* POST /api/customer/rentals/:id/cancel
CustomerCancel(u, r) ==
  /\ UNCHANGED <<products, reqs>>
  /\ IF CustomerCancelOutcome(u, r) = "ok"
       THEN rentals' = SetStatus(r, "cancelled")
       ELSE UNCHANGED rentals

\* PATCH /api/vendor/products/:id/availability: role check and scoped lookup
ToggleAvailabilityOutcome(u, pid) ==
  IF ~authorize("vendor", u) THEN "Forbidden"
  ELSE IF ~(pid \in DOMAIN products /\ products[pid].owner = u) THEN "NotFound"
  ELSE "ok"

\* PATCH /api/vendor/products/:id/availability
ToggleAvailability(u, pid, b) ==
  /\ UNCHANGED <<rentals, reqs>>
  /\ IF ToggleAvailabilityOutcome(u, pid) = "ok"
       THEN products' = [products EXCEPT ![pid].isAvailable = b]
       ELSE UNCHANGED products

\* --------------------------------------------- PATCH /api/vendor/rentals/:id
\* the fields of the request body that the handler may copy, per status
allowedUpdates(st) ==
  CASE st = "pending" -> {"startDate", "endDate", "totalPrice", "status"}
    [] st = "approved" -> {"startDate", "endDate", "totalPrice", "status", "paymentStatus"}
    [] st = "active" -> {"returnStatus", "status", "paymentStatus"}
    [] st = "completed" -> {"paymentStatus"}
    [] OTHER -> {}

\* claimed total prices: the daily rate times each day count a future range
\* of the calendar can have
PriceInputs == {d * PerDay : d \in 1..(MaxDay - Now)}

\* request bodies: each of startDate, endDate, status and totalPrice present
\* or absent
UpdateInputs ==
  [startDate : Days \cup {NoDate}, endDate : Days \cup {NoDate},
   status : StatusInputs \cup {NoStatus}, totalPrice : PriceInputs \cup {NoPrice}]

\* lines 721-725: copy the allowed keys of the body onto the document
ApplyAllowed(doc, upd) ==
  LET allowed == allowedUpdates(doc.status) IN
  [doc EXCEPT
     !.startDate = IF upd.startDate # NoDate /\ "startDate" \in allowed
                     THEN upd.startDate ELSE @,
     !.endDate = IF upd.endDate # NoDate /\ "endDate" \in allowed
                   THEN upd.endDate ELSE @,
     !.status = IF upd.status # NoStatus /\ "status" \in allowed
                  THEN upd.status ELSE @,
     !.totalPrice = IF upd.totalPrice # NoPrice /\ "totalPrice" \in allowed
                      THEN upd.totalPrice ELSE @]

\* lines 727-754: the document as it stands when rental.save() is called;
\* dates in the body and a pending document trigger the recomputation
UpdatedDoc(r, upd) ==
  LET doc == ApplyAllowed(rentals[r], upd)
      recheck == (upd.startDate # NoDate \/ upd.endDate # NoDate)
                   /\ doc.status = "pending"
      startDate == IF upd.startDate # NoDate THEN upd.startDate ELSE doc.startDate
      endDate == IF upd.endDate # NoDate THEN upd.endDate ELSE doc.endDate
      calc == calculatePrice(products[doc.product], startDate, endDate)
  IN [recheck |-> recheck,
      available |-> checkAvailability(rentals, doc.product, startDate, endDate),
      doc |-> IF recheck
                THEN [doc EXCEPT !.duration = calc.duration,
                                 !.totalPrice = calc.totalPrice]
                ELSE doc]

\* the checks of the handler up to and including the save
VendorPatchRentalOutcome(u, r, upd) ==
  IF ~authorize("vendor", u) THEN "Forbidden"
  ELSE IF ~FoundByOwner(u, r) THEN "NotFound"
  ELSE IF UpdatedDoc(r, upd).recheck /\ ~UpdatedDoc(r, upd).available THEN "DateConflict"
  ELSE IF ~ValidDoc(UpdatedDoc(r, upd).doc) THEN "ServerError"
  ELSE "ok"

\* `await rental.populate("product").populate(...)` after the save: chaining on
\* the returned promise throws on Mongoose >= 6 and is accepted by Mongoose 5
VendorPatchRentalReplies(u, r, upd) ==
  IF VendorPatchRentalOutcome(u, r, upd) = "ok"
    THEN {"ok", "ServerError"}
    ELSE {VendorPatchRentalOutcome(u, r, upd)}

VendorPatchRental(u, r, upd) ==
  /\ UNCHANGED <<products, reqs>>
  /\ IF VendorPatchRentalOutcome(u, r, upd) = "ok"
       THEN rentals' = [rentals EXCEPT ![r] = UpdatedDoc(r, upd).doc]
       ELSE UNCHANGED rentals

\* ------------------------------------------------------------------ inputs
\* the users who send rental requests: a customer and the product's owner
Renters == {"c1", "v1"}

\* date pairs of a rental request: every pair of days and one unparseable date
DateInputs == (Days \X Days) \cup {<<NoDate, Now>>}

\* bodies of PATCH /api/vendor/rentals/:id that carry a status at most
StatusBodies ==
  {upd \in UpdateInputs :
     upd.startDate = NoDate /\ upd.endDate = NoDate /\ upd.totalPrice = NoPrice}

\* bodies of PATCH /api/vendor/rentals/:id that carry dates or a price and no
\* status
EditBodies == {upd \in UpdateInputs : upd.status = NoStatus}

InitStores ==
  /\ rentals = <<>>
  /\ notifications = {}
  /\ products = [p \in Products |->
                   [owner |-> "v1", perDay |-> PerDay, isAvailable |-> TRUE]]

Init ==
  /\ InitStores
  /\ reqs = <<>>

\* ------------------------------------------------------------ specification
\* every handler, run to completion one request at a time
Next ==
  \/ \E u \in Renters, pid \in ProductIds, d \in DateInputs, price \in PriceInputs :
       CreateRental(u, pid, d[1], d[2], price) /\ UNCHANGED notifications
  \/ \E u \in Users, r \in 1..MaxRentals, t \in StatusInputs :
       RentalsPatchStatus(u, r, t) /\ UNCHANGED notifications
  \/ \E u \in Users, r \in 1..MaxRentals :
       RentalsPatchCancel(u, r) /\ UNCHANGED notifications
  \/ \E u \in Users, r \in 1..MaxRentals, t \in StatusInputs :
       VendorPatchStatus(u, r, t) /\ UNCHANGED notifications
  \/ \E u \in Users, r \in 1..MaxRentals, t \in StatusInputs :
       VendorPatchStatusPermissive(u, r, t) /\ UNCHANGED notifications
  \/ \E u \in Users, r \in 1..MaxRentals :
       VendorApprove(u, r) /\ UNCHANGED notifications
  \/ \E u \in Users, r \in 1..MaxRentals :
       VendorReject(u, r) /\ UNCHANGED notifications
  \/ \E u \in Users, r \in 1..MaxRentals :
       CustomerCancel(u, r) /\ UNCHANGED notifications
  \/ \E u \in Users, pid \in ProductIds, b \in BOOLEAN :
       ToggleAvailability(u, pid, b) /\ UNCHANGED notifications
  \/ \E u \in Users, r \in 1..MaxRentals, upd \in StatusBodies :
       VendorPatchRental(u, r, upd) /\ UNCHANGED notifications

Spec == Init /\ [][Next]_vars

\* ------------------------------------- POST /api/rentals, await by await
\* One slot per request.  A request is suspended at `await Product.findById`
\* (pc "findProduct"), at `await Rental.checkAvailability` (pc "check") and at
\* `await rental.save()` (pc "save"); other requests run in between.
Slots == 1..MaxReqs

IdleReq ==
  [pc |-> "idle", user |-> "c1", pid |-> "p1", startDate |-> 0, endDate |-> 0,
   totalPrice |-> 0, product |-> [owner |-> "v1", perDay |-> 0, isAvailable |-> FALSE],
   result |-> "none", rental |-> 0, during |-> {}]

InFlight(k) == reqs[k].pc \in {"findProduct", "check", "save"}

Finish(k, kind) == [reqs EXCEPT ![k].pc = "done", ![k].result = kind]

\* lines 11-45: read the body, validate the dates, issue the product query
CreateStart(k, u, pid, s, e, price) ==
  /\ reqs[k].pc = "idle"
  /\ LET others == {j \in Slots \ {k} : InFlight(j)}
         started == [j \in Slots |->
                       IF j = k
                         THEN [reqs[k] EXCEPT !.user = u, !.pid = pid,
                                 !.startDate = s, !.endDate = e,
                                 !.totalPrice = price, !.during = others,
                                 !.pc = IF DateCheck(s, e) = "ok"
                                          THEN "findProduct" ELSE "done",
                                 !.result = IF DateCheck(s, e) = "ok"
                                              THEN "none" ELSE DateCheck(s, e)]
                       ELSE IF j \in others /\ DateCheck(s, e) = "ok"
                         THEN [reqs[j] EXCEPT !.during = @ \cup {k}]
                       ELSE reqs[j]]
     IN reqs' = started
  /\ UNCHANGED <<rentals, products>>

\* lines 45-61: the product arrives; owner and flag checks; issue the
\* availability query
CreateProduct(k) ==
  /\ reqs[k].pc = "findProduct"
  /\ LET out == ProductCheck(reqs[k].user, reqs[k].pid, products) IN
     reqs' = IF out = "ok"
               THEN [reqs EXCEPT ![k].pc = "check",
                                 ![k].product = products[reqs[k].pid]]
               ELSE Finish(k, out)
  /\ UNCHANGED <<rentals, products>>

\* lines 61-128: the availability answer arrives; price validation against
\* the product read earlier; issue the insert
CreateCheck(k) ==
  /\ reqs[k].pc = "check"
  /\ LET q == reqs[k]
         avail == AvailCheck(rentals, q.pid, q.startDate, q.endDate)
         price == PriceCheck(q.product, q.startDate, q.endDate, q.totalPrice)
     IN reqs' = IF avail # "ok" THEN Finish(k, avail)
               ELSE IF price # "ok" THEN Finish(k, price)
               ELSE [reqs EXCEPT ![k].pc = "save"]
  /\ UNCHANGED <<rentals, products>>

\* lines 128-143: the insert lands and the 201 response is sent
CreateSave(k) ==
  /\ reqs[k].pc = "save"
  /\ LET q == reqs[k] IN
     rentals' = Append(rentals, NewRental(q.user, q.pid, q.product,
                                          q.startDate, q.endDate, q.totalPrice))
  /\ reqs' = [Finish(k, "ok") EXCEPT ![k].rental = Len(rentals) + 1]
  /\ UNCHANGED products

\* date pairs of concurrent requests: every valid future range, and one
\* range that starts in the past
ConcRanges == {d \in Days \X Days : DateCheck(d[1], d[2]) = "ok"} \cup {<<Now - 1, Now>>}

InitConc ==
  /\ InitStores
  /\ reqs = [k \in Slots |-> IdleReq]

\* customers send rental requests while the owner approves the stored ones
NextConc ==
  \/ \E k \in Slots, u \in Renters, pid \in Products, d \in ConcRanges,
        price \in PriceInputs :
       CreateStart(k, u, pid, d[1], d[2], price) /\ UNCHANGED notifications
  \/ \E k \in Slots : CreateProduct(k) /\ UNCHANGED notifications
  \/ \E k \in Slots : CreateCheck(k) /\ UNCHANGED notifications
  \/ \E k \in Slots : CreateSave(k) /\ UNCHANGED notifications
  \/ \E u \in Users, r \in Slots : VendorApprove(u, r) /\ UNCHANGED notifications
  \/ \E u \in Users, r \in Slots : VendorPatchStatus(u, r, "approved") /\ UNCHANGED notifications

SpecConc == InitConc /\ [][NextConc]_vars

\* ------------------------------------ status requests, await by await
\* A status request reads the rental (`await Rental.findOne`), runs its checks
\* on the document it read, and writes with `await rental.save()`, which sends
\* $set {status} for that _id with no version condition.  Other requests run
\* while it is suspended at either await.
StatusKinds == {"customerCancel", "rentalsCancel", "vendorStatus"}

\* the checks of the three handlers, on the stored document
StatusOutcome(kind, u, r, t) ==
  CASE kind = "customerCancel" -> CustomerCancelOutcome(u, r)
    [] kind = "rentalsCancel" -> RentalsPatchCancelOutcome(u, r)
    [] OTHER -> VendorPatchStatusOutcome(u, r, t)

\* the value the handler assigns to rental.status before the save
StatusWrite(kind, t) ==
  IF kind = "vendorStatus"
    THEN (IF t = "approved" THEN "active" ELSE t)
    ELSE "cancelled"

IdleStatusReq ==
  [pc |-> "idle", kind |-> "vendorStatus", user |-> "c1", rental |-> 0,
   target |-> "none", read |-> "none", result |-> "none"]

\* the query answer arrives and the checks run; a failing request is answered
\* at once and leaves nothing behind, a passing one goes on to the product
\* update (completion on the vendor router) or to the save
StatusRead(k, kind, u, r, t) ==
  /\ reqs[k].pc = "idle"
  /\ reqs' = IF StatusOutcome(kind, u, r, t) # "ok" THEN reqs
             ELSE [reqs EXCEPT ![k] =
                     [pc |-> IF kind = "vendorStatus" /\ t = "completed"
                               THEN "release" ELSE "save",
                      kind |-> kind, user |-> u, rental |-> r,
                      target |-> IF kind = "vendorStatus" THEN t ELSE "cancelled",
                      read |-> rentals[r].status, result |-> "none"]]
  /\ UNCHANGED <<rentals, products>>

\* `await Product.findByIdAndUpdate(...)` of a completion
StatusRelease(k) ==
  /\ reqs[k].pc = "release"
  /\ products' = ReleaseProduct(rentals[reqs[k].rental].product)
  /\ reqs' = [reqs EXCEPT ![k].pc = "save"]
  /\ UNCHANGED rentals

\* `await rental.save()` lands and the 200 response is sent
StatusSave(k) ==
  /\ reqs[k].pc = "save"
  /\ rentals' = SetStatus(reqs[k].rental, StatusWrite(reqs[k].kind, reqs[k].target))
  /\ reqs' = [reqs EXCEPT ![k].pc = "done", ![k].result = "ok"]
  /\ UNCHANGED products

InitStatus ==
  /\ InitStores
  /\ reqs = [k \in Slots |-> IdleStatusReq]

\* customers send rental requests; renters and owners send status requests
\* that interleave
NextStatus ==
  \/ \E d \in ConcRanges, price \in PriceInputs :
       CreateRental("c1", "p1", d[1], d[2], price) /\ UNCHANGED notifications
  \/ \E k \in Slots, kind \in StatusKinds, u \in Users, r \in 1..MaxRentals,
        t \in StatusInputs :
       StatusRead(k, kind, u, r, t) /\ UNCHANGED notifications
  \/ \E k \in Slots : StatusRelease(k) /\ UNCHANGED notifications
  \/ \E k \in Slots : StatusSave(k) /\ UNCHANGED notifications

SpecStatus == InitStatus /\ [][NextStatus]_vars

\* ------------------------------------ POST /api/rentals with its reply
\* the largest member of a non-empty set of dates
MaxOf(S) == CHOOSE x \in S : \A y \in S : y <= x

\* dropping the approved/active filter from the second query
EarliestAvailableAnyStatus(rs, pid, s, e) ==
  LET overlapping == {i \in 1..Len(rs) :
                        /\ rs[i].product = pid
                        /\ rs[i].startDate <= e
                        /\ rs[i].endDate >= s}
  IN IF overlapping = {} THEN NoDate
     ELSE MaxOf({rs[i].endDate : i \in overlapping})

\* lines 64-77: the second query and earliestAvailableDate (NoDate for null)
EarliestAvailable(rs, pid, s, e) ==
  LET overlapping == Conflicts(rs, pid, s, e) IN
  IF overlapping = {} THEN NoDate
  ELSE MaxOf({rs[i].endDate : i \in overlapping})

\* the request and the JSON body of the response: the error kind, the date of
\* the "available after" detail and the price of the "Expected price" detail
Reply(u, pid, s, e, price, prods, rs) ==
  LET out == CreateOutcome(u, pid, s, e, price, prods, rs) IN
  [user |-> u, pid |-> pid, startDate |-> s, endDate |-> e, totalPrice |-> price,
   result |-> out,
   availableAfter |-> IF out = "DateConflict"
                        THEN EarliestAvailable(rs, pid, s, e) ELSE NoDate,
   expectedPrice |-> IF out = "PriceMismatch"
                       THEN Quote(prods[pid], s, e).expected ELSE 0]

\* POST /api/rentals, with the reply kept in reqs
PostRentals(u, pid, s, e, price) ==
  /\ IF CreateOutcome(u, pid, s, e, price, products, rentals) = "ok"
       THEN /\ Len(rentals) < MaxRentals
            /\ rentals' = Append(rentals, NewRental(u, pid, products[pid], s, e, price))
       ELSE UNCHANGED rentals
  /\ reqs' = <<Reply(u, pid, s, e, price, products, rentals)>>
  /\ UNCHANGED products

\* date pairs of an answered request: every ordered pair of days, an empty
\* range, a reversed range and an unparseable date
CreateDateInputs ==
  {d \in Days \X Days : d[1] < d[2]}
     \cup {<<Now, Now>>, <<Now + 1, Now>>, <<NoDate, Now>>}

\* rental requests are answered one at a time while the owner approves the
\* stored ones and toggles the listing
NextCreate ==
  \/ \E u \in Renters, pid \in ProductIds, d \in CreateDateInputs,
        price \in PriceInputs :
       PostRentals(u, pid, d[1], d[2], price) /\ UNCHANGED notifications
  \/ \E u \in Users, r \in 1..MaxRentals :
       VendorApprove(u, r) /\ UNCHANGED notifications
  \/ \E u \in Users, pid \in Products, b \in BOOLEAN :
       ToggleAvailability(u, pid, b) /\ UNCHANGED notifications

SpecCreate == Init /\ [][NextCreate]_vars

\* --------------------------------------- the availability check at work
\* a customer's rental requests for future ranges are answered while the
\* owner moves the stored rentals through every status
NextAvail ==
  \/ \E pid \in Products, d \in ConcRanges, price \in PriceInputs :
       PostRentals("c1", pid, d[1], d[2], price) /\ UNCHANGED notifications
  \/ \E u \in Users, r \in 1..MaxRentals, t \in Statuses :
       VendorPatchStatusPermissive(u, r, t) /\ UNCHANGED notifications

SpecAvail == Init /\ [][NextAvail]_vars

\* ------------------------------------------- the price check of POST /rentals
\* claimed prices: the flat daily price of the range, and values near it
PriceOffsets == (0 - 2)..2

\* one request by a customer for a range of 1..MaxSpan days from the request
\* time, with a claimed price at or near days * perDay
NextPrice ==
  \/ \E d \in 1..MaxSpan, x \in PriceOffsets :
       CreateStart(1, "c1", "p1", Now, Now + d, d * PerDay + x)
         /\ UNCHANGED notifications
  \/ CreateProduct(1) /\ UNCHANGED notifications
  \/ CreateCheck(1) /\ UNCHANGED notifications
  \/ CreateSave(1) /\ UNCHANGED notifications

SpecPrice == InitConc /\ [][NextPrice]_vars

\* ------------------------------------------------------------ notifications
NoTitle == "undefined"

\* createRentalNotification: the title chosen for the type and rental.status
Title(type, st) ==
  CASE type = "rental_request" -> "New Rental Request"
    [] type = "rental_status" /\ st = "approved" -> "Rental Request Approved"
    [] type = "rental_status" /\ st = "rejected" -> "Rental Request Rejected"
    [] type = "rental_status" /\ st = "completed" -> "Rental Completed"
    [] type = "rental_status" /\ st = "cancelled" -> "Rental Cancelled"
    [] OTHER -> NoTitle

\* notificationSchema: title and message are required
ValidNotification(n) == n.title # NoTitle

\* Notification.create without the try/catch around it
createNotificationUncaught(n, storeOk) ==
  [stored |-> IF storeOk /\ ValidNotification(n) THEN {n} ELSE {},
   threw |-> ~(storeOk /\ ValidNotification(n))]

\* createNotification: Notification.create inside try/catch; a validation or
\* storage error is logged and null is returned.  storeOk: the store accepts
\* the write.
createNotification(n, storeOk) ==
  [stored |-> IF storeOk /\ ValidNotification(n) THEN {n} ELSE {},
   threw |-> FALSE]

\* createRentalNotification for the types rental_request and rental_status
createRentalNotification(rental, id, type, storeOk) ==
  createNotification(
    [recipient |-> IF type = "rental_request" THEN rental.owner ELSE rental.renter,
     type |-> type, rental |-> id, status |-> rental.status,
     title |-> Title(type, rental.status)],
    storeOk)

\* the handler's reply once its checks gave `out` and the notification call
\* returned `sent`: an exception lands in the handler's catch block
NotifiedReply(out, sent) ==
  IF out # "ok" THEN out ELSE IF sent.threw THEN "ServerError" ELSE "ok"

\* the rental_status notification of a status handler that stored `st`
StatusNotice(r, st, storeOk) ==
  createRentalNotification([rentals[r] EXCEPT !.status = st], r, "rental_status", storeOk)

\* `await createRentalNotification(rental, "rental_status")` after the save
StatusDispatch(out, r, st, storeOk) ==
  IF out = "ok"
    THEN notifications' = notifications \cup StatusNotice(r, st, storeOk).stored
    ELSE UNCHANGED notifications

\* the rental_request notification of POST /api/rentals
RequestNotice(u, pid, s, e, price, storeOk) ==
  createRentalNotification(NewRental(u, pid, products[pid], s, e, price),
                           Len(rentals) + 1, "rental_request", storeOk)

\* POST /api/rentals with lines 137-138
CreateRentalNotify(u, pid, s, e, price, storeOk) ==
  /\ CreateRental(u, pid, s, e, price)
  /\ IF CreateOutcome(u, pid, s, e, price, products, rentals) = "ok"
       THEN notifications' =
              notifications \cup RequestNotice(u, pid, s, e, price, storeOk).stored
       ELSE UNCHANGED notifications

CreateRentalReply(u, pid, s, e, price, storeOk) ==
  LET out == CreateOutcome(u, pid, s, e, price, products, rentals) IN
  IF out # "ok" THEN out
  ELSE NotifiedReply(out, RequestNotice(u, pid, s, e, price, storeOk))

\* PATCH /api/rentals/:id/status with lines 263-264
RentalsPatchStatusNotify(u, r, t, storeOk) ==
  /\ RentalsPatchStatus(u, r, t)
  /\ StatusDispatch(RentalsPatchStatusOutcome(u, r, t), r, t, storeOk)

RentalsPatchStatusReply(u, r, t, storeOk) ==
  LET out == RentalsPatchStatusOutcome(u, r, t) IN
  IF out # "ok" THEN out ELSE NotifiedReply(out, StatusNotice(r, t, storeOk))

\* PATCH /api/rentals/:id/cancel with lines 300-301
RentalsPatchCancelNotify(u, r, storeOk) ==
  /\ RentalsPatchCancel(u, r)
  /\ StatusDispatch(RentalsPatchCancelOutcome(u, r), r, "cancelled", storeOk)

RentalsPatchCancelReply(u, r, storeOk) ==
  LET out == RentalsPatchCancelOutcome(u, r) IN
  IF out # "ok" THEN out ELSE NotifiedReply(out, StatusNotice(r, "cancelled", storeOk))

\* PATCH /api/vendor/rentals/:id/status, first router, with lines 615-616
VendorPatchStatusNotify(u, r, t, storeOk) ==
  /\ VendorPatchStatus(u, r, t)
  /\ StatusDispatch(VendorPatchStatusOutcome(u, r, t), r,
                    IF t = "approved" THEN "active" ELSE t, storeOk)

VendorPatchStatusReply(u, r, t, storeOk) ==
  LET out == VendorPatchStatusOutcome(u, r, t) IN
  IF out # "ok" THEN out
  ELSE NotifiedReply(out, StatusNotice(r, IF t = "approved" THEN "active" ELSE t,
                                       storeOk))

\* PATCH /api/vendor/rentals/:id/status, second router, with lines 1168-1169
VendorPatchStatusPermissiveNotify(u, r, t, storeOk) ==
  /\ VendorPatchStatusPermissive(u, r, t)
  /\ StatusDispatch(VendorPatchStatusPermissiveOutcome(u, r, t), r, t, storeOk)

VendorPatchStatusPermissiveReply(u, r, t, storeOk) ==
  LET out == VendorPatchStatusPermissiveOutcome(u, r, t) IN
  IF out # "ok" THEN out ELSE NotifiedReply(out, StatusNotice(r, t, storeOk))

\* date pairs of the rental requests of the notification specifications
NoticeRanges == {<<Now, Now + 1>>, <<Now, Now>>}

\* rental requests and the status handlers of the rentals router and of the
\* first vendor router, over a notification store that accepts or refuses
\* each write
NextDispatch ==
  \/ \E u \in Renters, pid \in Products, d \in NoticeRanges, price \in PriceInputs,
        storeOk \in BOOLEAN :
       CreateRentalNotify(u, pid, d[1], d[2], price, storeOk)
  \/ \E u \in Users, r \in 1..MaxRentals, t \in StatusInputs, storeOk \in BOOLEAN :
       RentalsPatchStatusNotify(u, r, t, storeOk)
  \/ \E u \in Users, r \in 1..MaxRentals, storeOk \in BOOLEAN :
       RentalsPatchCancelNotify(u, r, storeOk)
  \/ \E u \in Users, r \in 1..MaxRentals, t \in StatusInputs, storeOk \in BOOLEAN :
       VendorPatchStatusNotify(u, r, t, storeOk)

SpecDispatch == Init /\ [][NextDispatch]_vars

\* every handler that creates a rental or changes a status, over a
\* notification store that accepts every write
NextNotify ==
  \/ \E u \in Renters, pid \in Products, d \in NoticeRanges, price \in PriceInputs :
       CreateRentalNotify(u, pid, d[1], d[2], price, TRUE)
  \/ \E u \in Users, r \in 1..MaxRentals, t \in StatusInputs :
       RentalsPatchStatusNotify(u, r, t, TRUE)
  \/ \E u \in Users, r \in 1..MaxRentals :
       RentalsPatchCancelNotify(u, r, TRUE)
  \/ \E u \in Users, r \in 1..MaxRentals, t \in StatusInputs :
       VendorPatchStatusNotify(u, r, t, TRUE)
  \/ \E u \in Users, r \in 1..MaxRentals, t \in StatusInputs :
       VendorPatchStatusPermissiveNotify(u, r, t, TRUE)
  \/ \E u \in Users, r \in 1..MaxRentals :
       VendorApprove(u, r) /\ UNCHANGED notifications
  \/ \E u \in Users, r \in 1..MaxRentals :
       VendorReject(u, r) /\ UNCHANGED notifications
  \/ \E u \in Users, r \in 1..MaxRentals :
       CustomerCancel(u, r) /\ UNCHANGED notifications
  \/ \E u \in Users, r \in 1..MaxRentals, upd \in StatusBodies :
       VendorPatchRental(u, r, upd) /\ UNCHANGED notifications

SpecNotify == Init /\ [][NextNotify]_vars

\* ------------------------------------------- edits of the stored rentals
\* a customer's rental requests are stored, the owner approves some, and
\* sends date and price edits for pending and approved ones
NextEdit ==
  \/ \E pid \in Products, d \in ConcRanges, price \in PriceInputs :
       CreateRental("c1", pid, d[1], d[2], price) /\ UNCHANGED notifications
  \/ \E u \in Users, r \in 1..MaxRentals :
       VendorApprove(u, r) /\ UNCHANGED notifications
  \/ \E u \in Users, r \in 1..MaxRentals, upd \in EditBodies :
       VendorPatchRental(u, r, upd) /\ UNCHANGED notifications

SpecEdit == Init /\ [][NextEdit]_vars

\* ------------------------------------------------------- the reminder job
\* case "rental_reminder" of createRentalNotification: one document for the
\* renter and one for the owner; createdAt (timestamps: true) is the hour of
\* the run that stored it
createRentalReminder(rental, id, createdAt) ==
  createNotification(
    [recipient |-> rental.renter, type |-> "rental_reminder", rental |-> id,
     status |-> rental.status, title |-> "Rental Start Reminder",
     createdAt |-> createdAt], TRUE).stored
  \cup
  createNotification(
    [recipient |-> rental.owner, type |-> "rental_reminder", rental |-> id,
     status |-> rental.status, title |-> "Rental Start Reminder (Owner)",
     createdAt |-> createdAt], TRUE).stored

\* Rental.find({startDate: {$gte: tomorrow, $lt: dayAfterTomorrow},
\*              status: {$in: ["approved", "active"]}})
rentalsStartingTomorrow ==
  {r \in RentalIds : /\ rentals[r].startDate = Now + 1
                     /\ rentals[r].status \in {"approved", "active"}}

\* the hours of this day at which a run has stored reminders
ReminderHours == {n.createdAt : n \in {m \in notifications : m.type = "rental_reminder"}}

\* one run of the setInterval callback, at the next hour of the day
ReminderJob ==
  LET hour == MaxOf(ReminderHours \cup {0}) + 1 IN
  /\ hour <= MaxRuns
  /\ notifications' =
       notifications \cup
         UNION {createRentalReminder(rentals[r], r, hour) : r \in rentalsStartingTomorrow}
  /\ UNCHANGED <<rentals, products, reqs>>

\* rental requests, the owner's status changes and the hourly job
NextReminder ==
  \/ \E pid \in Products, d \in ConcRanges, price \in PriceInputs :
       CreateRental("c1", pid, d[1], d[2], price) /\ UNCHANGED notifications
  \/ \E u \in Users, r \in 1..MaxRentals, t \in StatusInputs :
       VendorPatchStatus(u, r, t) /\ UNCHANGED notifications
  \/ \E u \in Users, r \in 1..MaxRentals :
       VendorApprove(u, r) /\ UNCHANGED notifications
  \/ ReminderJob

SpecReminder == Init /\ [][NextReminder]_vars

\* ------------------------------------------------- the availability flag
\* bodies of PATCH /api/vendor/rentals/:id that carry both dates of a range
\* a rental request could have
RangeBodies ==
  {[startDate |-> d[1], endDate |-> d[2], status |-> NoStatus, totalPrice |-> NoPrice] :
     d \in ConcRanges}

\* the operations on rentals that run beside the owner's availability toggle
NextFlag ==
  \/ \E pid \in Products, d \in ConcRanges, price \in PriceInputs :
       CreateRental("c1", pid, d[1], d[2], price) /\ UNCHANGED notifications
  \/ \E u \in Users, r \in 1..MaxRentals, t \in StatusInputs :
       RentalsPatchStatus(u, r, t) /\ UNCHANGED notifications
  \/ \E u \in Users, r \in 1..MaxRentals :
       RentalsPatchCancel(u, r) /\ UNCHANGED notifications
  \/ \E u \in Users, r \in 1..MaxRentals :
       VendorApprove(u, r) /\ UNCHANGED notifications
  \/ \E u \in Users, r \in 1..MaxRentals :
       VendorReject(u, r) /\ UNCHANGED notifications
  \/ \E u \in Users, r \in 1..MaxRentals :
       CustomerCancel(u, r) /\ UNCHANGED notifications
  \/ \E u \in Users, r \in 1..MaxRentals, upd \in RangeBodies :
       VendorPatchRental(u, r, upd) /\ UNCHANGED notifications
  \/ \E u \in Users, pid \in Products, b \in BOOLEAN :
       ToggleAvailability(u, pid, b) /\ UNCHANGED notifications

SpecFlag == Init /\ [][NextFlag]_vars

\* ------------------------------------------------------------------ claims
Committed == {"approved", "active"}
Terminal == {"rejected", "completed", "cancelled"}

\* the closed-interval overlap of two stored rentals
Overlap(a, b) == a.startDate <= b.endDate /\ a.endDate >= b.startDate

\* the transition table of the design (from, to)
CanonicalEdges ==
  {<<"pending", "approved">>, <<"pending", "rejected">>, <<"pending", "cancelled">>,
   <<"approved", "active">>, <<"approved", "cancelled">>,
   <<"active", "completed">>, <<"active", "cancelled">>}

\* a step changes the status of the stored rental r
StatusChanged(r) == rentals'[r].status # rentals[r].status

\* C1: for every product, no two distinct rentals in status approved or
\* active have overlapping date ranges.
C1_NonOverlap ==
  \A i, j \in RentalIds :
     (/\ i # j
      /\ rentals[i].product = rentals[j].product
      /\ rentals[i].status \in Committed
      /\ rentals[j].status \in Committed)
       => ~Overlap(rentals[i], rentals[j])

\* C4: every change of an existing rental's status is an edge of the
\* canonical table or the one-step approve pending -> active.
C4_CanonicalOnly ==
  [][\A r \in RentalIds :
       StatusChanged(r) =>
         <<rentals[r].status, rentals'[r].status>>
            \in CanonicalEdges \cup {<<"pending", "active">>}]_vars

\* some handler runs for caller u in this step
ActsAs(u) ==
  \/ \E pid \in ProductIds, d \in DateInputs, price \in PriceInputs :
       CreateRental(u, pid, d[1], d[2], price)
  \/ \E r \in 1..MaxRentals, t \in StatusInputs : RentalsPatchStatus(u, r, t)
  \/ \E r \in 1..MaxRentals : RentalsPatchCancel(u, r)
  \/ \E r \in 1..MaxRentals, t \in StatusInputs : VendorPatchStatus(u, r, t)
  \/ \E r \in 1..MaxRentals, t \in StatusInputs : VendorPatchStatusPermissive(u, r, t)
  \/ \E r \in 1..MaxRentals : VendorApprove(u, r)
  \/ \E r \in 1..MaxRentals : VendorReject(u, r)
  \/ \E r \in 1..MaxRentals : CustomerCancel(u, r)
  \/ \E pid \in ProductIds, b \in BOOLEAN : ToggleAvailability(u, pid, b)
  \/ \E r \in 1..MaxRentals, upd \in StatusBodies : VendorPatchRental(u, r, upd)

\* C5: a change to approved, active, rejected or completed is made by the
\* rental's owner, a change to cancelled by its owner or its renter, and no
\* other user changes a rental's status through any endpoint.
C5_OnlyOwnerOrRenter ==
  [][\A r \in RentalIds :
       StatusChanged(r) =>
         \A u \in Users \ {rentals[r].owner} :
            ActsAs(u) => (u = rentals[r].renter /\ rentals'[r].status = "cancelled")]_vars

\* C5 witness: a renter has cancelled one rental and the owner has completed
\* another.
C5_Witness ==
  \E i, j \in RentalIds :
     rentals[i].status = "cancelled" /\ rentals[j].status = "completed"

\* C6: once a rental is rejected, completed or cancelled, no operation
\* changes its status.
C6_TerminalStays ==
  [][\A r \in RentalIds :
       rentals[r].status \in Terminal => ~StatusChanged(r)]_vars

\* C7: for every pair (current, target) outside the canonical table, the
\* owner's status request is answered InvalidTransition and changes neither
\* the rental nor the product's availability flag, on every status endpoint.
C7_InvalidTransition ==
  [][\A r \in RentalIds : \A t \in Statuses :
       <<rentals[r].status, t>> \notin CanonicalEdges =>
         LET o == rentals[r].owner IN
         /\ RentalsPatchStatusOutcome(o, r, t) = "InvalidTransition"
         /\ VendorPatchStatusOutcome(o, r, t) = "InvalidTransition"
         /\ VendorPatchStatusPermissiveOutcome(o, r, t) = "InvalidTransition"
         /\ (\/ RentalsPatchStatus(o, r, t)
             \/ VendorPatchStatus(o, r, t)
             \/ VendorPatchStatusPermissive(o, r, t))
              => UNCHANGED <<rentals, products>>]_vars

\* C8: a status request on an existing rental by a user who is not its owner
\* is answered Forbidden on every status endpoint.
C8_NonOwnerForbidden ==
  \A r \in RentalIds : \A u \in Users \ {rentals[r].owner} : \A t \in Statuses :
     /\ RentalsPatchStatusOutcome(u, r, t) = "Forbidden"
     /\ VendorPatchStatusOutcome(u, r, t) = "Forbidden"
     /\ VendorPatchStatusPermissiveOutcome(u, r, t) = "Forbidden"

\* C9: after any step that makes a rental completed, the rental's product
\* has availability.isAvailable = TRUE.
C9_CompletionReleases ==
  [][\A r \in RentalIds :
       (StatusChanged(r) /\ rentals'[r].status = "completed")
          => products'[rentals[r].product].isAvailable]_vars

\* C10: every approve action of the owner on a pending rental (a status
\* update with target approved, or the approve endpoint) leaves it active.
C10_ApproveActivates ==
  [][\A r \in RentalIds :
       LET o == rentals[r].owner IN
       (/\ rentals[r].status = "pending"
        /\ \/ RentalsPatchStatus(o, r, "approved")
           \/ VendorPatchStatus(o, r, "approved")
           \/ VendorPatchStatusPermissive(o, r, "approved")
           \/ VendorApprove(o, r))
         => rentals'[r].status = "active"]_vars

\* the requests of S have all been answered, ran concurrently on one product
\* with pairwise overlapping ranges, and pass every check other than the
\* date-conflict check
ConcurrentGroup(S) ==
  /\ Cardinality(S) >= 2
  /\ \A k \in S :
       /\ reqs[k].pc = "done"
       /\ DateCheck(reqs[k].startDate, reqs[k].endDate) = "ok"
       /\ ProductCheck(reqs[k].user, reqs[k].pid, products) = "ok"
       /\ PriceCheck(products[reqs[k].pid], reqs[k].startDate, reqs[k].endDate,
                     reqs[k].totalPrice) = "ok"
  /\ \A j, k \in S :
       j # k => /\ reqs[j].pid = reqs[k].pid
                /\ Overlap(reqs[j], reqs[k])
                /\ (j \in reqs[k].during \/ k \in reqs[j].during)

\* no rental of the requests' product is approved or active
NoCommitted(S) ==
  \A k \in S : \A i \in RentalIds :
     rentals[i].product = reqs[k].pid => rentals[i].status \notin Committed

\* C2 (as claimed): of N >= 2 concurrent createRental requests with
\* overlapping ranges on one product and no committed booking, exactly one
\* succeeds and the others fail with DateConflict.
C2_ExactlyOneSucceeds ==
  \A S \in SUBSET Slots :
     (ConcurrentGroup(S) /\ NoCommitted(S)) =>
        /\ Cardinality({k \in S : reqs[k].result = "ok"}) = 1
        /\ \A k \in S : reqs[k].result \in {"ok", "DateConflict"}

\* C2 (amended): of N >= 2 concurrent createRental requests with overlapping
\* ranges on one product, all other checks passing and no approved or active
\* rental of the product, every request succeeds and has inserted its own
\* pending rental; none fails with DateConflict.
C2_AllSucceed ==
  \A S \in SUBSET Slots :
     (ConcurrentGroup(S) /\ NoCommitted(S)) =>
        /\ \A k \in S :
             /\ reqs[k].result = "ok"
             /\ reqs[k].rental \in RentalIds
             /\ rentals[reqs[k].rental].status = "pending"
             /\ rentals[reqs[k].rental].renter = reqs[k].user
             /\ rentals[reqs[k].rental].startDate = reqs[k].startDate
             /\ rentals[reqs[k].rental].endDate = reqs[k].endDate
        /\ \A j, k \in S : j # k => reqs[j].rental # reqs[k].rental

\* C2 witness: two requests that ran concurrently for overlapping ranges have
\* both been answered, with no committed booking on the product.
C2_Witness ==
  \E S \in SUBSET Slots : ConcurrentGroup(S) /\ NoCommitted(S)

\* C3: at the moment a rental is inserted, no approved or active rental of
\* its product overlaps it (the availability check and the insert are atomic).
C3_AtomicCheckInsert ==
  [][Len(rentals') > Len(rentals) =>
       LET new == rentals'[Len(rentals')] IN
       Conflicts(rentals, new.product, new.startDate, new.endDate) = {}]_vars

\* C11: no step sets the status of an existing rental to pending from any
\* other status; pending is entered only by creation.
C11_PendingOnlyByCreation ==
  [][\A r \in RentalIds :
       rentals[r].status # "pending" => rentals'[r].status # "pending"]_vars

\* C12: a status write lands only when the request's own checks still pass
\* against the status stored at that moment, so that concurrent requests on
\* one rental have the effect of running one after the other.
C12_Serialized ==
  [][\A k \in Slots :
       StatusSave(k) =>
         StatusOutcome(reqs[k].kind, reqs[k].user, reqs[k].rental, reqs[k].target)
            = "ok"]_vars

\* C13: an answered createRental whose other checks pass succeeded when the
\* claimed price equals days * perDay, and for every other claimed price
\* failed with PriceMismatch reporting days * perDay, whatever the day count.
C13_PriceDeterminism ==
  \A k \in Slots :
     LET q == reqs[k]
         expected == (q.endDate - q.startDate) * products[q.pid].perDay
     IN (/\ q.pc = "done"
         /\ DateCheck(q.startDate, q.endDate) = "ok"
         /\ ProductCheck(q.user, q.pid, products) = "ok"
         /\ AvailCheck(rentals, q.pid, q.startDate, q.endDate) = "ok")
          => IF q.totalPrice = expected
               THEN q.result = "ok"
               ELSE /\ q.result = "PriceMismatch"
                    /\ ~Quote(products[q.pid], q.startDate, q.endDate).nan
                    /\ Quote(products[q.pid], q.startDate, q.endDate).expected = expected

\* the order of the validation sequence
ValidationOrder ==
  <<"InvalidDateRange", "DateInPast", "NotFound", "SelfRentalForbidden",
    "ProductUnavailable", "DateConflict", "PriceMismatch">>

\* the checks that request q fails when each is taken on its own
FailedChecks(q, prods, rs) ==
  LET parsed == q.startDate # NoDate /\ q.endDate # NoDate
      found == q.pid \in DOMAIN prods
  IN {c \in {"InvalidDateRange"} : ~parsed \/ q.startDate >= q.endDate}
       \cup {c \in {"DateInPast"} : parsed /\ q.startDate < Now}
       \cup {c \in {"NotFound"} : ~found}
       \cup {c \in {"SelfRentalForbidden"} : found /\ prods[q.pid].owner = q.user}
       \cup {c \in {"ProductUnavailable"} : found /\ ~prods[q.pid].isAvailable}
       \cup {c \in {"DateConflict"} :
                parsed /\ \E i \in 1..Len(rs) :
                             /\ rs[i].product = q.pid
                             /\ rs[i].status \in Committed
                             /\ rs[i].startDate <= q.endDate
                             /\ rs[i].endDate >= q.startDate}
       \cup {c \in {"PriceMismatch"} :
                /\ parsed /\ found /\ q.startDate < q.endDate
                /\ q.endDate - q.startDate <= WeekDays
                /\ Abs((q.endDate - q.startDate) * prods[q.pid].perDay
                         - q.totalPrice) > 1}

\* the first member of the validation order that q fails, "ok" if none
FirstFailing(q, prods, rs) ==
  LET failed == FailedChecks(q, prods, rs) IN
  IF failed = {} THEN "ok"
  ELSE ValidationOrder[CHOOSE n \in 1..Len(ValidationOrder) :
                         /\ ValidationOrder[n] \in failed
                         /\ \A m \in 1..(n - 1) : ValidationOrder[m] \notin failed]

\* a step in which a rental request is answered
Posted == reqs' # reqs \/ Len(rentals') # Len(rentals)

\* C14: the error of an answered createRental is that of the first check, in
\* the order InvalidDateRange, DateInPast, NotFound, SelfRentalForbidden,
\* ProductUnavailable, DateConflict, PriceMismatch, that the request fails.
C14_FirstFailingCheckWins ==
  [][Posted => reqs'[1].result = FirstFailing(reqs'[1], products, rentals)]_vars

\* C14 witness: a request that fails at least three checks at once (the
\* listing is off, the dates conflict, the price is wrong) was answered
\* ProductUnavailable.
C14_Witness ==
  /\ Len(reqs) = 1
  /\ reqs[1].result = "ProductUnavailable"
  /\ {"ProductUnavailable", "DateConflict", "PriceMismatch"}
        \subseteq FailedChecks(reqs[1], products, rentals)

\* C15: an answered createRental with parseable dates, start < end and
\* start <= now (the request time) failed with DateInPast.
C15_StartNotAfterNow ==
  [][(/\ Posted
      /\ reqs'[1].startDate # NoDate
      /\ reqs'[1].startDate < reqs'[1].endDate
      /\ reqs'[1].startDate <= Now)
       => reqs'[1].result = "DateInPast"]_vars

\* C16: a createRental answered with success added exactly one rental, which
\* is pending, has the caller as renter, the product's owner as owner and the
\* requested product and dates; the stored rentals and the products are as
\* they were.
C16_CreateFrame ==
  [][(Posted /\ reqs'[1].result = "ok") =>
       LET q == reqs'[1]
           new == rentals'[Len(rentals')]
       IN /\ Len(rentals') = Len(rentals) + 1
          /\ new.status = "pending"
          /\ new.renter = q.user
          /\ new.owner = products[q.pid].owner
          /\ new.product = q.pid
          /\ new.startDate = q.startDate
          /\ new.endDate = q.endDate
          /\ \A i \in RentalIds : rentals'[i] = rentals[i]
          /\ products' = products]_vars

\* C16 witness: a request was answered with success while another rental was
\* stored, and its rental is the second of the store.
C16_Witness ==
  /\ Len(reqs) = 1
  /\ reqs[1].result = "ok"
  /\ Len(rentals) = 2
  /\ rentals[2].renter = reqs[1].user
  /\ rentals[2].startDate = reqs[1].startDate
  /\ rentals[2].endDate = reqs[1].endDate
  /\ rentals[2].status = "pending"

\* C17: for every product and requested range, checkAvailability is TRUE
\* exactly when no approved or active rental of the product has
\* startDate <= end and endDate >= start; pending, completed, rejected and
\* cancelled rentals never count, and touching a committed rental's first or
\* last day is a conflict.
C17_CheckAvailability ==
  \A p \in ProductIds : \A s, e \in Days :
     /\ checkAvailability(rentals, p, s, e)
          <=> ~\E i \in RentalIds :
                  /\ rentals[i].product = p
                  /\ rentals[i].status \in {"approved", "active"}
                  /\ rentals[i].startDate <= e
                  /\ rentals[i].endDate >= s
     /\ (\A i \in RentalIds :
            rentals[i].product = p =>
              rentals[i].status \in {"pending", "completed", "rejected", "cancelled"})
          => checkAvailability(rentals, p, s, e)
     /\ (\E i \in RentalIds :
            /\ rentals[i].product = p
            /\ rentals[i].status \in {"approved", "active"}
            /\ s <= e
            /\ (rentals[i].endDate = s \/ rentals[i].startDate = e))
          => ~checkAvailability(rentals, p, s, e)

\* C17 witness: a rental request for a range that starts on the last day of
\* a committed rental was answered DateConflict, while a rejected, completed
\* or cancelled rental of the same product is stored.
C17_Witness ==
  /\ Len(reqs) = 1
  /\ reqs[1].result = "DateConflict"
  /\ \E i, j \in RentalIds :
       /\ rentals[i].status \in {"approved", "active"}
       /\ rentals[i].endDate = reqs[1].startDate
       /\ rentals[j].status \in {"rejected", "completed", "cancelled"}
       /\ rentals[j].product = rentals[i].product

\* the approved or active rentals of the product of request q that overlap
\* its range
OverlappingCommitted(q, rs) ==
  {i \in 1..Len(rs) :
      /\ rs[i].product = q.pid
      /\ rs[i].status \in Committed
      /\ rs[i].startDate <= q.endDate
      /\ rs[i].endDate >= q.startDate}

\* C18: the earliest-available date reported by a createRental answered
\* DateConflict is the endDate of an overlapping approved or active rental of
\* the product, and no such rental ends later.
C18_HintIsLatestEnd ==
  [][(Posted /\ reqs'[1].result = "DateConflict") =>
       LET over == OverlappingCommitted(reqs'[1], rentals) IN
       /\ \E i \in over : rentals[i].endDate = reqs'[1].availableAfter
       /\ \A i \in over : rentals[i].endDate <= reqs'[1].availableAfter]_vars

\* C18 witness: a request answered DateConflict overlaps two approved rentals
\* that end on different days and was told the later one.
C18_Witness ==
  /\ Len(reqs) = 1
  /\ reqs[1].result = "DateConflict"
  /\ \E i, j \in OverlappingCommitted(reqs[1], rentals) :
       /\ rentals[i].endDate < rentals[j].endDate
       /\ reqs[1].availableAfter = rentals[j].endDate

\* C19: when the notification store refuses the write of a createRental or
\* of a status change whose checks pass, the caller still gets the success
\* reply and the new rental or the new status is stored.
C19_NotificationFailureTolerated ==
  [][rentals' # rentals =>
     /\ \A u \in Renters, pid \in Products, d \in NoticeRanges, price \in PriceInputs :
          (/\ CreateOutcome(u, pid, d[1], d[2], price, products, rentals) = "ok"
           /\ CreateRentalNotify(u, pid, d[1], d[2], price, FALSE))
            => /\ CreateRentalReply(u, pid, d[1], d[2], price, FALSE) = "ok"
               /\ Len(rentals') = Len(rentals) + 1
               /\ rentals'[Len(rentals')].renter = u
     /\ \A u \in Users, r \in RentalIds :
          /\ \A t \in Statuses :
               /\ (/\ RentalsPatchStatusOutcome(u, r, t) = "ok"
                   /\ RentalsPatchStatusNotify(u, r, t, FALSE))
                    => /\ RentalsPatchStatusReply(u, r, t, FALSE) = "ok"
                       /\ rentals'[r].status = t
               /\ (/\ VendorPatchStatusOutcome(u, r, t) = "ok"
                   /\ VendorPatchStatusNotify(u, r, t, FALSE))
                    => /\ VendorPatchStatusReply(u, r, t, FALSE) = "ok"
                       /\ rentals'[r].status = IF t = "approved" THEN "active" ELSE t
          /\ (/\ RentalsPatchCancelOutcome(u, r) = "ok"
              /\ RentalsPatchCancelNotify(u, r, FALSE))
               => /\ RentalsPatchCancelReply(u, r, FALSE) = "ok"
                  /\ rentals'[r].status = "cancelled"]_vars

\* C19 witness: a rental was created and brought to completed while the
\* notification store refused every write about it.
C19_Witness ==
  \E r \in RentalIds :
     /\ rentals[r].status = "completed"
     /\ \A n \in notifications : n.rental # r

\* C20: after every step that changes a rental's status, a rental_status
\* notification for the rental's renter that carries the new status is
\* stored.
C20_StatusChangeNotifiesRenter ==
  [][\A r \in RentalIds :
       StatusChanged(r) =>
         \E n \in notifications' :
            /\ n.type = "rental_status"
            /\ n.recipient = rentals[r].renter
            /\ n.rental = r
            /\ n.status = rentals'[r].status]_vars

\* C21: on both cancel endpoints a cancel request passes exactly when the
\* caller is the rental's renter and the rental is pending or approved, and
\* then leaves it cancelled; otherwise the status is unchanged.
C21_RenterCancel ==
  [][\A r \in RentalIds : \A u \in Users :
       LET allowed == u = rentals[r].renter
                        /\ rentals[r].status \in {"pending", "approved"}
       IN /\ (CustomerCancelOutcome(u, r) = "ok") <=> allowed
          /\ (RentalsPatchCancelOutcome(u, r) = "ok") <=> allowed
          /\ (CustomerCancel(u, r) \/ RentalsPatchCancel(u, r))
               => rentals'[r].status =
                    IF allowed THEN "cancelled" ELSE rentals[r].status]_vars

\* C22: no step changes the startDate or endDate of a rental whose status is
\* not pending.
C22_DatesOnlyWhilePending ==
  [][\A r \in RentalIds :
       rentals[r].status # "pending" =>
         /\ rentals'[r].startDate = rentals[r].startDate
         /\ rentals'[r].endDate = rentals[r].endDate]_vars

\* C23: a date edit sent by the owner for a pending rental, with start before
\* end and a range that no committed rental of the product overlaps, passes
\* and saves the new dates with totalPrice = days * perDay.
C23_PendingDateEdit ==
  \A r \in RentalIds : \A upd \in EditBodies :
     (/\ rentals[r].status = "pending"
      /\ upd.startDate # NoDate /\ upd.endDate # NoDate /\ upd.totalPrice = NoPrice
      /\ upd.startDate < upd.endDate
      /\ checkAvailability(rentals, rentals[r].product, upd.startDate, upd.endDate))
     => /\ VendorPatchRentalOutcome(rentals[r].owner, r, upd) = "ok"
        /\ UpdatedDoc(r, upd).doc.startDate = upd.startDate
        /\ UpdatedDoc(r, upd).doc.endDate = upd.endDate
        /\ UpdatedDoc(r, upd).doc.totalPrice =
             (upd.endDate - upd.startDate) * products[rentals[r].product].perDay

\* C24: every stored rental has startDate before endDate.
C24_StartBeforeEnd ==
  \A r \in RentalIds : rentals[r].startDate < rentals[r].endDate

\* C25: every stored rental's totalPrice is its number of days times the
\* product's daily rate.
C25_TotalPriceIsDaysTimesRate ==
  \A r \in RentalIds :
     rentals[r].totalPrice =
       (rentals[r].endDate - rentals[r].startDate) * products[rentals[r].product].perDay

\* a body of the generic update that carries a status only
StatusBody(t) ==
  [startDate |-> NoDate, endDate |-> NoDate, status |-> t, totalPrice |-> NoPrice]

\* C26: for every stored rental and every target status other than its own,
\* PATCH /rentals/:id/status, PATCH /vendor/rentals/:id/status, the vendor's
\* generic update and the client's option table agree on whether the owner's
\* change is accepted, and the three endpoints store the same status.
C26_OneTransitionRelation ==
  \A r \in RentalIds : \A t \in Statuses \ {rentals[r].status} :
     LET u == rentals[r].owner
         byRentals == RentalsPatchStatusOutcome(u, r, t) = "ok"
         byVendor == VendorPatchStatusOutcome(u, r, t) = "ok"
         byUpdate == /\ VendorPatchRentalOutcome(u, r, StatusBody(t)) = "ok"
                     /\ UpdatedDoc(r, StatusBody(t)).doc.status # rentals[r].status
         byClient == t \in validTransitionsClient(rentals[r].status)
     IN /\ byRentals <=> byVendor
        /\ byVendor <=> byUpdate
        /\ byUpdate <=> byClient
        /\ byRentals =>
             /\ StatusWrite("vendorStatus", t) = t
             /\ UpdatedDoc(r, StatusBody(t)).doc.status = t

\* C27: for every rental and recipient at most one rental_reminder
\* notification is stored.
C27_ReminderOnce ==
  \A r \in RentalIds : \A u \in Users :
     Cardinality({n \in notifications :
                    n.type = "rental_reminder" /\ n.rental = r /\ n.recipient = u}) <= 1

\* a step of one of the status handlers on rental r
StatusStep(u, r, t) ==
  \/ RentalsPatchStatus(u, r, t)
  \/ VendorPatchStatus(u, r, t)
  \/ VendorPatchStatusPermissive(u, r, t)
  \/ VendorApprove(u, r)
  \/ VendorReject(u, r)
  \/ CustomerCancel(u, r)
  \/ RentalsPatchCancel(u, r)

\* C28: a step of a status update, approve, reject or cancel on rental r
\* changes at most r's status and, when r becomes completed, sets the
\* product's isAvailable to TRUE; every other field, every other rental and
\* every other product field stay as they were.
C28_StatusFrame ==
  [][(rentals' # rentals \/ products' # products) =>
       \A u \in Users : \A r \in 1..MaxRentals : \A t \in StatusInputs :
          StatusStep(u, r, t) =>
            /\ r \in RentalIds
            /\ rentals' = [rentals EXCEPT ![r].status = rentals'[r].status]
            /\ \/ products' = products
               \/ /\ rentals'[r].status = "completed"
                  /\ products' =
                       [products EXCEPT ![rentals[r].product].isAvailable = TRUE]]_vars

\* two rentals, one completed by its owner and the other still pending
C28_Witness ==
  \E r \in RentalIds : \E q \in RentalIds :
     /\ rentals[r].status = "completed"
     /\ rentals[q].status = "pending"
     /\ products[rentals[r].product].isAvailable

C30_NoSelfRental ==
  /\ [](\A r \in RentalIds : rentals[r].renter # rentals[r].owner)
  /\ [](\A pid \in DOMAIN products : \A d \in DateInputs : \A price \in PriceInputs :
          DateCheck(d[1], d[2]) = "ok" =>
            CreateOutcome(products[pid].owner, pid, d[1], d[2], price, products, rentals)
              = "SelfRentalForbidden")
  /\ [][\A r \in RentalIds :
          /\ rentals'[r].renter = rentals[r].renter
          /\ rentals'[r].owner = rentals[r].owner]_vars

\* a customer's rental has run to completion and the product is on offer
\* again, so the owner's own request reaches the self-rental check
C30_Witness ==
  \E r \in RentalIds :
     /\ rentals[r].status = "completed"
     /\ rentals[r].renter = "c1"
     /\ Len(rentals) < MaxRentals
     /\ products[rentals[r].product].isAvailable
     /\ \E d \in DateInputs : \E price \in PriceInputs :
           CreateOutcome(rentals[r].owner, rentals[r].product, d[1], d[2], price,
                         products, rentals) = "SelfRentalForbidden"
====
